---- MODULE Spec2Model ----
(***************************************************************************)
(* Model of the AI Code Review Assistant backend:                          *)
(*   backend/app/main.py                 webhook, pipeline run, REST API   *)
(*   backend/app/services/github_app.py  signature, token, fetch, publish   *)
(*   backend/app/services/llm.py         generate_review                    *)
(*   backend/app/models.py               Review, ReviewComment rows         *)
(* Python values that come from JSON are tagged records [t |-> ..., v |-> ..]*)
(* so that a dict, a list, a string, a number and null stay distinguishable. *)
(***************************************************************************)
EXTENDS Integers, Sequences, FiniteSets, TLC

(* ------------------------------ bounds --------------------------------- *)
\* number of webhook deliveries handled in one behaviour
MaxDeliveries == 2

(* ------------------------- JSON / Python values ------------------------ *)
JNull == [t |-> "null"]
JStr(s) == [t |-> "str", v |-> s]
JInt(n) == [t |-> "int", v |-> n]
JList(l) == [t |-> "list", v |-> l]
JObj(d) == [t |-> "obj", v |-> d]

\* the empty dict {} : a function with no keys
EmptyDict == <<>>

\* dict.get(key, default)
DictGet(d, key, default) == IF key \in DOMAIN d THEN d[key] ELSE default

\* type(x).__name__
PyType(x) ==
    CASE x.t = "null" -> "NoneType"
      [] x.t = "obj" -> "dict"
      [] OTHER -> x.t

\* an evaluation either returns a value or raises an exception with a text
Ret(v) == [ok |-> TRUE, v |-> v, err |-> ""]
Raise(e) == [ok |-> FALSE, v |-> JNull, err |-> e]

(* ------------------------- signature verifier -------------------------- *)
\* hex HMAC-SHA256 of payload under secret: an injective abstract digest
HmacHex(secret, payload) == <<secret, payload>>

\* the X-Hub-Signature-256 header: absent, or "<alg>=<hex>"; both sides of
\* the comparison are ASCII
NoHeader == [alg |-> "<absent>"]
Header(alg, hex) == [alg |-> alg, hex |-> hex]

\* the verifier without the check for an empty secret
verify_github_signature_NoSecretCheck(secret, payload, signature_header) ==
    IF signature_header = NoHeader \/ signature_header.alg # "sha256" THEN FALSE
    ELSE signature_header.hex = HmacHex(secret, payload)

\* github_app.py lines 15-22
verify_github_signature(secret, payload, signature_header) ==
    IF secret = "" THEN FALSE
    ELSE IF signature_header = NoHeader \/ signature_header.alg # "sha256" THEN FALSE
    ELSE signature_header.hex = HmacHex(secret, payload)

(* --------------------------- webhook inputs ---------------------------- *)
NoAction == "<none>"
NoInstallation == 0
Events == {"pull_request", "push"}
Actions == {"opened", "synchronize", "reopened", "closed", NoAction}
\* the action filter letting closed pull requests through
AcceptedActions_WithClosed == {"opened", "synchronize", "reopened", "closed"}

\* main.py line 204
AcceptedActions == {"opened", "synchronize", "reopened"}
InstallationIds == {NoInstallation, 7}
SenderKeys == {"s3cret", "wrong"}
Secrets == {"", "s3cret"}

\* the parsed JSON body of a delivery (repository and pull request are fixed)
Bodies == [action : Actions, installation_id : InstallationIds]
RepoName == "octo-org/example-repo"
PrNumber == 42

SigHeaders(body) ==
    {NoHeader} \cup {Header(a, HmacHex(k, body)) : a \in {"sha256", "sha1"}, k \in SenderKeys}
GoodHeader(body) == Header("sha256", HmacHex("s3cret", body))

NoRequest == [event |-> "-", body |-> [action |-> NoAction, installation_id |-> NoInstallation],
              signature |-> NoHeader]
NoResponse == [code |-> 0, skipped |-> FALSE, event |-> "-", action |-> "-",
               review_id |-> 0, detail |-> "-"]

(* --------------------------- review generator -------------------------- *)
\* message.content of the model's reply: None or "" (NoContent), or a text
\* that json.loads either rejects or turns into a value
NoContent == [valid |-> FALSE, empty |-> TRUE, value |-> JNull]
InvalidJson == [valid |-> FALSE, empty |-> FALSE, value |-> JNull]
JsonText(value) == [valid |-> TRUE, empty |-> FALSE, value |-> value]

json_loads(content) ==
    IF content.valid THEN Ret(content.value) ELSE Raise("JSONDecodeError")

\* Python's substring test for the strings that occur in the model
StrContains(s, key) == s = "summary and comments" /\ key \in {"summary", "comments"}

\* key in data
PyIn(key, data) ==
    CASE data.t = "obj" -> Ret(key \in DOMAIN data.v)
      [] data.t = "list" -> Ret(\E i \in 1..Len(data.v) : data.v[i] = JStr(key))
      [] data.t = "str" -> Ret(StrContains(data.v, key))
      [] OTHER -> Raise("argument of type '" \o PyType(data) \o "' is not iterable")

DictSet(d, key, val) == [k \in (DOMAIN d) \cup {key} |-> IF k = key THEN val ELSE d[k]]

\* data[key] = default, whether or not the key is there
SetDefault_Overwrite(data, key, default) ==
    LET m == PyIn(key, data) IN
    IF ~m.ok THEN Raise(m.err)
    ELSE IF data.t = "obj" THEN Ret(JObj(DictSet(data.v, key, default)))
    ELSE Raise("'" \o PyType(data) \o "' object does not support item assignment")

\* if key not in data: data[key] = default
SetDefault(data, key, default) ==
    LET m == PyIn(key, data) IN
    IF ~m.ok THEN Raise(m.err)
    ELSE IF m.v THEN Ret(data)
    ELSE IF data.t = "obj" THEN Ret(JObj(DictSet(data.v, key, default)))
    ELSE Raise("'" \o PyType(data) \o "' object does not support item assignment")

FallbackResult == JObj([summary |-> JStr("Unable to parse LLM response."), comments |-> JList(<<>>)])

\* llm.py lines 57-68: from the reply's content to the returned data
generate_review(content) ==
    LET text == IF content.empty THEN JsonText(JObj(EmptyDict)) ELSE content
        parsed == json_loads(text)
        data == IF parsed.ok THEN parsed.v ELSE FallbackResult
        withSummary == SetDefault(data, "summary", JStr("Review completed."))
    IN  IF ~withSummary.ok THEN withSummary
        ELSE SetDefault(withSummary.v, "comments", JList(<<>>))

\* comments the model may return
FullComment == JObj([file_path |-> JStr("src/api/service.py"), line_start |-> JInt(18),
                     line_end |-> JInt(22), message |-> JStr("Potential null dereference."),
                     severity |-> JStr("warning")])
BareComment == JObj(EmptyDict)
TextLineComment == JObj([file_path |-> JStr("src/utils/date.ts"), line_start |-> JStr("abc"),
                         message |-> JStr("Consider UTC parsing.")])
NegativeLineComment == JObj([file_path |-> JStr("src/utils/date.ts"), line_start |-> JInt(-5),
                             line_end |-> JInt(-1), message |-> JStr("Consider UTC parsing."),
                             severity |-> JStr("critical")])

\* replies of the model backend
ModelTexts ==
    { NoContent,
      InvalidJson,
      JsonText(JNull),
      JsonText(JList(<<>>)),
      JsonText(JStr("looks good")),
      JsonText(JStr("summary and comments")),
      JsonText(JObj([summary |-> JStr("LGTM")])),
      JsonText(JObj([summary |-> JStr("Found issues"),
                     comments |-> JList(<<FullComment, BareComment, NegativeLineComment>>)])),
      JsonText(JObj([summary |-> JStr("Found issues"), comments |-> JList(<<FullComment, TextLineComment>>)])),
      JsonText(JObj([summary |-> JStr("Found issues"), comments |-> JNull])),
      JsonText(JObj([summary |-> JStr("Found issues"), comments |-> JList(<<JStr("oops")>>)])) }

(* ----------------------- review body and comment rows ------------------ *)
\* truth value of a Python object
Truthy(x) ==
    CASE x.t = "null" -> FALSE
      [] x.t = "int" -> x.v # 0
      [] x.t = "str" -> x.v # ""
      [] x.t = "list" -> Len(x.v) > 0
      [] x.t = "obj" -> DOMAIN x.v # {}

\* for comment in comments: the items, or the TypeError of a non-iterable;
\* a string yields its characters and a dict its keys, all of them strings
Iterate(x) ==
    CASE x.t = "list" -> Ret(x.v)
      [] x.t = "str" -> Ret(IF x.v = "" THEN <<>> ELSE <<JStr("c")>>)
      [] x.t = "obj" -> Ret(IF DOMAIN x.v = {} THEN <<>> ELSE <<JStr("k")>>)
      [] OTHER -> Raise("'" \o PyType(x) \o "' object is not iterable")

\* str.upper() for the severities that occur
Upper(s) ==
    CASE s = "info" -> "INFO"
      [] s = "warning" -> "WARNING"
      [] s = "critical" -> "CRITICAL"
      [] OTHER -> s

\* main.py line 152: one "- **SEVERITY** file: message" line
FindingLine(comment) ==
    IF comment.t # "obj" THEN Raise("'" \o PyType(comment) \o "' object has no attribute 'get'")
    ELSE LET sev == DictGet(comment.v, "severity", JStr("info")) IN
         IF sev.t # "str" THEN Raise("'" \o PyType(sev) \o "' object has no attribute 'upper'")
         ELSE Ret([severity |-> Upper(sev.v),
                   file_path |-> DictGet(comment.v, "file_path", JNull),
                   message |-> DictGet(comment.v, "message", JNull)])

\* the first exception among a sequence of evaluations, or the values
Collect(results) ==
    IF \E i \in 1..Len(results) : ~results[i].ok
    THEN LET first == CHOOSE i \in 1..Len(results) :
                          ~results[i].ok /\ \A j \in 1..(i-1) : results[j].ok
         IN  Raise(results[first].err)
    ELSE Ret([i \in 1..Len(results) |-> results[i].v])

NoFindings == <<[severity |-> "-", file_path |-> JNull, message |-> JStr("No blocking issues found.")]>>

\* main.py lines 146-157: summary, comments and the Markdown body of the review
BuildReviewBody(llm_result) ==
    IF llm_result.t # "obj"
    THEN Raise("'" \o PyType(llm_result) \o "' object has no attribute 'get'")
    ELSE LET summary == DictGet(llm_result.v, "summary", JStr("Review completed."))
             cs == DictGet(llm_result.v, "comments", JList(<<>>))
             items == Iterate(cs)
             lines == IF ~Truthy(cs) THEN Ret(NoFindings)
                      ELSE IF ~items.ok THEN Raise(items.err)
                      ELSE Collect([i \in 1..Len(items.v) |-> FindingLine(items.v[i])])
         IN  IF ~lines.ok THEN Raise(lines.err)
             ELSE Ret([summary |-> summary, comments |-> cs,
                       body |-> [heading |-> "## AI Code Review Summary", summary |-> summary,
                                 findings |-> lines.v]])

\* int(x)
PyInt(x) ==
    CASE x.t = "int" -> Ret(x.v)
      [] x.t = "str" /\ x.v = "18" -> Ret(18)
      [] x.t = "str" /\ x.v # "18" -> Raise("invalid literal for int() with base 10: '" \o x.v \o "'")
      [] OTHER -> Raise("int() argument must be a string, a bytes-like object or a real number")

\* main.py lines 167-173: the ReviewComment row of one generated comment
ReviewCommentModel(review_id, comment) ==
    IF comment.t # "obj" THEN Raise("'" \o PyType(comment) \o "' object has no attribute 'get'")
    ELSE LET ls == PyInt(DictGet(comment.v, "line_start", JInt(0)))
             le == PyInt(DictGet(comment.v, "line_end", JInt(0)))
         IN  IF ~ls.ok THEN Raise(ls.err)
             ELSE IF ~le.ok THEN Raise(le.err)
             ELSE Ret([review_id |-> review_id,
                       file_path |-> DictGet(comment.v, "file_path", JStr("unknown")),
                       line_start |-> ls.v,
                       line_end |-> le.v,
                       message |-> DictGet(comment.v, "message", JStr("")),
                       severity |-> DictGet(comment.v, "severity", JStr("info"))])

\* main.py lines 165-175: the rows added to the session for a run's comments
CommentRows(review_id, cs) ==
    LET items == Iterate(cs) IN
    IF ~items.ok THEN Raise(items.err)
    ELSE Collect([i \in 1..Len(items.v) |-> ReviewCommentModel(review_id, items.v[i])])

\* the columns of both tables are NOT NULL strings and integers
Storable(summary, rows) ==
    /\ summary.t = "str"
    /\ \A i \in 1..Len(rows) :
          rows[i].file_path.t = "str" /\ rows[i].message.t = "str" /\ rows[i].severity.t = "str"

(* --------------------------- pull request files ------------------------ *)
\* per_page of the files endpoint and the default of fetch_pull_files' limit
PerPage == 100
DefaultLimit == 20
\* largest number of changed files of a pull request
MaxFiles == 237

Min(a, b) == IF a < b THEN a ELSE b
Max(a, b) == IF a > b THEN a ELSE b

\* the platform numbers the changed files 1..total and serves them in pages
Page(total, page) ==
    LET size == Max(0, Min(PerPage, total - (page - 1) * PerPage))
    IN  [i \in 1..size |-> (page - 1) * PerPage + i]

\* s[:n]
PySliceTo(s, n) ==
    IF n >= 0 THEN SubSeq(s, 1, Min(n, Len(s))) ELSE SubSeq(s, 1, Max(0, Len(s) + n))

\* locals of fetch_pull_files on entry to its loop
NewFetch(total, limit) ==
    [pc |-> "loop", total |-> total, limit |-> limit, files |-> <<>>, page |-> 1,
     requests |-> <<>>, result |-> <<>>]
IdleFetch == [NewFetch(0, 0) EXCEPT !.pc = "idle"]

\* the loop body without the break on a page shorter than per_page
LoopBody_NoShortBreak(f) ==
    LET batch == Page(f.total, f.page) IN
    IF batch = <<>>
    THEN [f EXCEPT !.requests = Append(@, f.page), !.pc = "return"]
    ELSE [f EXCEPT !.requests = Append(@, f.page), !.files = @ \o batch, !.page = @ + 1]

\* github_app.py lines 78-87: one iteration of the loop whose request succeeds
LoopBody(f) ==
    LET batch == Page(f.total, f.page) IN
    IF batch = <<>>
    THEN [f EXCEPT !.requests = Append(@, f.page), !.pc = "return"]
    ELSE IF Len(batch) < PerPage
    THEN [f EXCEPT !.requests = Append(@, f.page), !.files = @ \o batch, !.pc = "return"]
    ELSE [f EXCEPT !.requests = Append(@, f.page), !.files = @ \o batch, !.page = @ + 1]

\* github_app.py line 77
LoopCondition(f) == Len(f.files) < f.limit

\* the return without the truncation to limit
Return_NoSlice(f) == [f EXCEPT !.pc = "done", !.result = f.files]

\* github_app.py line 89
Return(f) == [f EXCEPT !.pc = "done", !.result = PySliceTo(f.files, f.limit)]

RECURSIVE RunFetch(_)
RunFetch(f) == IF f.pc = "loop" /\ LoopCondition(f) THEN RunFetch(LoopBody(f)) ELSE Return(f)

\* fetch_pull_files against a platform whose requests all succeed
fetch_pull_files(total, limit) == RunFetch(NewFetch(total, limit))

\* no call of verify_github_signature or generate_review under examination
IdleSig == [pc |-> "idle"]
IdleGen == [pc |-> "idle"]

VARIABLES
    webhookSecret,  \* GITHUB_WEBHOOK_SECRET ("" when unset)
    reviews,        \* table reviews: id -> row
    comments,       \* table review_comments: sequence of rows, in insertion order
    nextId,         \* source of fresh Review identifiers (uuid4)
    runs,           \* background tasks: review_id -> position and locals of the run
    deliveries,     \* number of webhook deliveries handled
    lastRequest,    \* the most recent webhook delivery
    lastResponse,   \* and the response it got
    fetch,          \* locals of a fetch_pull_files call examined on its own
    sig,            \* a verify_github_signature call examined on its own
    gen             \* a generate_review call examined on its own

vars == <<webhookSecret, reviews, comments, nextId, runs,
          deliveries, lastRequest, lastResponse, fetch, sig, gen>>

(* ------------------------------- state --------------------------------- *)
Terminal == {"completed", "failed"}

\* a background task as add_task leaves it: nothing executed yet
NewRun(installation_id) ==
    [pc |-> "start", installation_id |-> installation_id, entered |-> FALSE,
     token |-> 0, calls |-> <<>>, summary |-> JNull, comments |-> JNull,
     fail |-> "", err |-> ""]

\* an external request a run has made, the token it carried (0: none of the
\* platform's installation tokens) and whether the remote end answered with success
Call(op, token, ok) == [op |-> op, token |-> token, ok |-> ok]

Init ==
    /\ webhookSecret \in Secrets
    /\ reviews = <<>>
    /\ comments = <<>>
    /\ nextId = 1
    /\ runs = <<>>
    /\ deliveries = 0
    /\ lastRequest = NoRequest
    /\ lastResponse = NoResponse
    /\ fetch = IdleFetch
    /\ sig = IdleSig
    /\ gen = IdleGen

Extend(f, key, val) == [k \in (DOMAIN f) \cup {key} |-> IF k = key THEN val ELSE f[k]]

(* ------------------------------ webhook -------------------------------- *)
Request(event, action, installation_id, signature) ==
    [event |-> event, body |-> [action |-> action, installation_id |-> installation_id],
     signature |-> signature]

\* deliveries: every signature header on a delivery that would otherwise be
\* accepted, and every event, action and installation id under a good signature
Requests ==
    LET body == [action |-> "opened", installation_id |-> 7] IN
    { [event |-> "pull_request", body |-> body, signature |-> h] : h \in SigHeaders(body) }
    \cup { [event |-> "pull_request", body |-> b, signature |-> GoodHeader(b)] : b \in Bodies }
    \cup { [event |-> e, body |-> body, signature |-> GoodHeader(body)] : e \in Events }

Response(code, skipped, event, action, review_id, detail) ==
    [code |-> code, skipped |-> skipped, event |-> event, action |-> action,
     review_id |-> review_id, detail |-> detail]

\* a Review whose identifier is taken from an earlier Review of the pull request
NewReviewId_Reused == IF DOMAIN reviews # {} THEN CHOOSE id \in DOMAIN reviews : TRUE ELSE nextId

\* models.py line 16: the identifier a new Review row gets, a fresh uuid4
NewReviewId == nextId

\* the handler without the check of the installation id
WebhookOutcome_NoInstallationCheck(secret, req) ==
    IF ~verify_github_signature(secret, req.body, req.signature)
    THEN Response(401, FALSE, "-", "-", 0, "Invalid signature")
    ELSE IF req.event # "pull_request"
    THEN Response(200, TRUE, req.event, "-", 0, "-")
    ELSE IF req.body.action \notin AcceptedActions
    THEN Response(200, TRUE, req.event, req.body.action, 0, "-")
    ELSE Response(200, FALSE, req.event, "-", NewReviewId, "-")

\* main.py lines 192-227, what the handler answers and whether it gets as far as the Review
WebhookOutcome(secret, req) ==
    IF ~verify_github_signature(secret, req.body, req.signature)
    THEN Response(401, FALSE, "-", "-", 0, "Invalid signature")
    ELSE IF req.event # "pull_request"
    THEN Response(200, TRUE, req.event, "-", 0, "-")
    ELSE IF req.body.action \notin AcceptedActions
    THEN Response(200, TRUE, req.event, req.body.action, 0, "-")
    ELSE IF req.body.installation_id = NoInstallation
    THEN Response(400, FALSE, "-", "-", 0, "Missing installation id")
    ELSE Response(200, FALSE, req.event, "-", NewReviewId, "-")

github_webhook(req) ==
    /\ deliveries < MaxDeliveries
    /\ deliveries' = deliveries + 1
    /\ lastRequest' = req
    /\ lastResponse' = WebhookOutcome(webhookSecret, req)
    /\ IF lastResponse'.review_id # 0
       THEN /\ reviews' = Extend(reviews, lastResponse'.review_id,
                            [repo |-> RepoName, pr_number |-> PrNumber, status |-> "queued",
                             summary |-> "Webhook event: " \o req.event \o " (" \o req.body.action \o ")"])
            /\ nextId' = nextId + 1
            /\ runs' = Extend(runs, lastResponse'.review_id, NewRun(req.body.installation_id))
       ELSE UNCHANGED <<reviews, nextId, runs>>
    /\ UNCHANGED <<webhookSecret, comments, fetch, sig, gen>>

(* ---------------------------- pipeline run ----------------------------- *)
\* the except branch without its commit
Failed_Unrecorded(id, stage, text, calls) ==
    /\ reviews' = reviews
    /\ runs' = [runs EXCEPT ![id].pc = "done", ![id].calls = calls,
                            ![id].fail = stage, ![id].err = text,
                            ![id].summary = JNull, ![id].comments = JNull]

\* the except branch putting the Review back in the queue
Failed_Requeue(id, stage, text, calls) ==
    /\ reviews' = IF id \in DOMAIN reviews
                  THEN [reviews EXCEPT ![id].status = "queued",
                                       ![id].summary = "Review failed: " \o text]
                  ELSE reviews
    /\ runs' = [runs EXCEPT ![id].pc = "done", ![id].calls = calls,
                            ![id].fail = stage, ![id].err = text,
                            ![id].summary = JNull, ![id].comments = JNull]

\* main.py lines 177-183: the except branch, reached from the stage that raised
\* the except branch marking every Review that is in progress
Failed_EveryInProgress(id, stage, text, calls) ==
    /\ reviews' = [k \in DOMAIN reviews |->
                      IF reviews[k].status = "in_progress"
                      THEN [reviews[k] EXCEPT !.status = "failed",
                                              !.summary = "Review failed: " \o text]
                      ELSE reviews[k]]
    /\ runs' = [runs EXCEPT ![id].pc = "done", ![id].calls = calls,
                            ![id].fail = stage, ![id].err = text,
                            ![id].summary = JNull, ![id].comments = JNull]

Failed(id, stage, text, calls) ==
    /\ reviews' = IF id \in DOMAIN reviews
                  THEN [reviews EXCEPT ![id].status = "failed",
                                       ![id].summary = "Review failed: " \o text]
                  ELSE reviews
    /\ runs' = [runs EXCEPT ![id].pc = "done", ![id].calls = calls,
                            ![id].fail = stage, ![id].err = text,
                            ![id].summary = JNull, ![id].comments = JNull]

\* the entry step without the check that the Review was found
RunStart_NoEntryCheck(id) ==
    /\ id \in DOMAIN runs /\ runs[id].pc = "start"
    /\ reviews' = IF id \in DOMAIN reviews
                  THEN [reviews EXCEPT ![id].status = "in_progress"]
                  ELSE reviews
    /\ runs' = [runs EXCEPT ![id].pc = "token", ![id].entered = id \in DOMAIN reviews]
    /\ UNCHANGED <<webhookSecret, comments, nextId, deliveries, lastRequest, lastResponse, fetch, sig, gen>>

\* the entry step without the in_progress commit
RunStart_NoCommit(id) ==
    /\ id \in DOMAIN runs /\ runs[id].pc = "start"
    /\ IF id \in DOMAIN reviews
       THEN /\ runs' = [runs EXCEPT ![id].pc = "token", ![id].entered = TRUE]
            /\ UNCHANGED reviews
       ELSE /\ runs' = [runs EXCEPT ![id].pc = "done"]
            /\ UNCHANGED reviews
    /\ UNCHANGED <<webhookSecret, comments, nextId, deliveries, lastRequest, lastResponse, fetch, sig, gen>>

\* main.py lines 133-138
RunStart(id) ==
    /\ id \in DOMAIN runs /\ runs[id].pc = "start"
    /\ IF id \in DOMAIN reviews
       THEN /\ reviews' = [reviews EXCEPT ![id].status = "in_progress"]
            /\ runs' = [runs EXCEPT ![id].pc = "token", ![id].entered = TRUE]
       ELSE /\ runs' = [runs EXCEPT ![id].pc = "done"]
            /\ UNCHANGED reviews
    /\ UNCHANGED <<webhookSecret, comments, nextId, deliveries, lastRequest, lastResponse, fetch, sig, gen>>

\* the platform issues a distinct token for every issuance request; the token
\* is named after the run whose request obtained it
IssuedToken(id) == id

TokenOutcomes == {"ok", "no_credentials", "http_error"}

\* a token kept in the process and handed to later runs while it is valid
MintToken_Cached(id, outcome) ==
    /\ id \in DOMAIN runs /\ runs[id].pc = "token"
    /\ LET calls == Append(runs[id].calls, Call("token", 0, outcome = "ok"))
           holders == {k \in DOMAIN runs : runs[k].token # 0}
       IN
       CASE outcome = "no_credentials" ->
              Failed(id, "token", "Missing GITHUB_APP_ID or GITHUB_PRIVATE_KEY", runs[id].calls)
         [] outcome = "http_error" ->
              Failed(id, "token", "Client error '401 Unauthorized' for url '/access_tokens'", calls)
         [] outcome = "ok" ->
              /\ runs' = IF holders # {}
                         THEN [runs EXCEPT ![id].pc = "pr",
                                           ![id].token = runs[CHOOSE k \in holders : TRUE].token]
                         ELSE [runs EXCEPT ![id].pc = "pr", ![id].calls = calls,
                                           ![id].token = IssuedToken(id)]
              /\ UNCHANGED reviews
    /\ UNCHANGED <<webhookSecret, comments, nextId, deliveries, lastRequest, lastResponse, fetch, sig, gen>>

\* main.py line 141 and github_app.py lines 26-50
MintToken(id, outcome) ==
    /\ id \in DOMAIN runs /\ runs[id].pc = "token"
    /\ LET calls == Append(runs[id].calls, Call("token", 0, outcome = "ok")) IN
       CASE outcome = "no_credentials" ->
              Failed(id, "token", "Missing GITHUB_APP_ID or GITHUB_PRIVATE_KEY", runs[id].calls)
         [] outcome = "http_error" ->
              Failed(id, "token", "Client error '401 Unauthorized' for url '/access_tokens'", calls)
         [] outcome = "ok" ->
              /\ runs' = [runs EXCEPT ![id].pc = "pr", ![id].calls = calls,
                                      ![id].token = IssuedToken(id)]
              /\ UNCHANGED reviews
    /\ UNCHANGED <<webhookSecret, comments, nextId, deliveries, lastRequest, lastResponse, fetch, sig, gen>>

\* main.py line 142 and github_app.py lines 53-62
FetchPullRequest(id, ok) ==
    /\ id \in DOMAIN runs /\ runs[id].pc = "pr"
    /\ LET calls == Append(runs[id].calls, Call("pr", runs[id].token, ok)) IN
       IF ok
       THEN /\ runs' = [runs EXCEPT ![id].pc = "files", ![id].calls = calls]
            /\ UNCHANGED reviews
       ELSE Failed(id, "pr", "Client error '404 Not Found' for url '/pulls/42'", calls)
    /\ UNCHANGED <<webhookSecret, comments, nextId, deliveries, lastRequest, lastResponse, fetch, sig, gen>>

\* file counts of the pull requests the pipeline meets
PipelineFileCounts == {0, 3, 150}

\* main.py line 143 and github_app.py lines 65-89
FetchPullFiles(id, ok, total) ==
    /\ id \in DOMAIN runs /\ runs[id].pc = "files"
    /\ LET f == fetch_pull_files(total, DefaultLimit)
           made == [i \in 1..Len(f.requests) |-> Call("files", runs[id].token, TRUE)]
       IN  IF ok
           THEN /\ runs' = [runs EXCEPT ![id].pc = "model", ![id].calls = @ \o made]
                /\ UNCHANGED reviews
           ELSE Failed(id, "files", "Server error '502 Bad Gateway' for url '/pulls/42/files'",
                       Append(runs[id].calls, Call("files", runs[id].token, FALSE)))
    /\ UNCHANGED <<webhookSecret, comments, nextId, deliveries, lastRequest, lastResponse, fetch, sig, gen>>

ModelOutcomes == {"reply", "no_api_key", "transport_error"}

\* main.py lines 144-157 and llm.py lines 40-68
GenerateReview(id, outcome, content) ==
    /\ id \in DOMAIN runs /\ runs[id].pc = "model"
    /\ LET calls == Append(runs[id].calls, Call("model", 0, outcome = "reply"))
           llm_result == generate_review(content)
           built == BuildReviewBody(llm_result.v)
       IN  CASE outcome = "no_api_key" ->
                  Failed(id, "model", "Missing OPENAI_API_KEY", runs[id].calls)
             [] outcome = "transport_error" ->
                  Failed(id, "model", "Connection error.", calls)
             [] outcome = "reply" /\ ~llm_result.ok ->
                  Failed(id, "parse", llm_result.err, calls)
             [] outcome = "reply" /\ llm_result.ok /\ ~built.ok ->
                  Failed(id, "format", built.err, calls)
             [] outcome = "reply" /\ llm_result.ok /\ built.ok ->
                  /\ runs' = [runs EXCEPT ![id].pc = "publish", ![id].calls = calls,
                                          ![id].summary = built.v.summary,
                                          ![id].comments = built.v.comments]
                  /\ UNCHANGED reviews
    /\ UNCHANGED <<webhookSecret, comments, nextId, deliveries, lastRequest, lastResponse, fetch, sig, gen>>

\* the publish step without raise_for_status
PostReviewSummary_IgnoreError(id, ok) ==
    /\ id \in DOMAIN runs /\ runs[id].pc = "publish"
    /\ runs' = [runs EXCEPT ![id].pc = "persist",
                            ![id].calls = Append(@, Call("publish", runs[id].token, ok))]
    /\ UNCHANGED reviews
    /\ UNCHANGED <<webhookSecret, comments, nextId, deliveries, lastRequest, lastResponse, fetch, sig, gen>>

\* the publish step repeating a failed request once
PostReviewSummary_Retry(id, ok) ==
    /\ id \in DOMAIN runs /\ runs[id].pc = "publish"
    /\ LET calls == Append(runs[id].calls, Call("publish", runs[id].token, ok)) IN
       IF ok
       THEN /\ runs' = [runs EXCEPT ![id].pc = "persist", ![id].calls = calls]
            /\ UNCHANGED reviews
       ELSE /\ runs' = [runs EXCEPT ![id].pc = "persist",
                                    ![id].calls = Append(calls, Call("publish", runs[id].token, TRUE))]
            /\ UNCHANGED reviews
    /\ UNCHANGED <<webhookSecret, comments, nextId, deliveries, lastRequest, lastResponse, fetch, sig, gen>>

\* main.py line 158 and github_app.py lines 92-106
PostReviewSummary(id, ok) ==
    /\ id \in DOMAIN runs /\ runs[id].pc = "publish"
    /\ LET calls == Append(runs[id].calls, Call("publish", runs[id].token, ok)) IN
       IF ok
       THEN /\ runs' = [runs EXCEPT ![id].pc = "persist", ![id].calls = calls]
            /\ UNCHANGED reviews
       ELSE Failed(id, "publish", "Server error '500 Internal Server Error' for url '/pulls/42/reviews'", calls)
    /\ UNCHANGED <<webhookSecret, comments, nextId, deliveries, lastRequest, lastResponse, fetch, sig, gen>>

\* a store that keeps the rows of a commit it refused
Persist_RowsOutsideCommit(id, commitOk) ==
    /\ id \in DOMAIN runs /\ runs[id].pc = "persist"
    /\ IF id \notin DOMAIN reviews
       THEN /\ runs' = [runs EXCEPT ![id].pc = "done"]
            /\ UNCHANGED <<reviews, comments>>
       ELSE LET rows == CommentRows(id, runs[id].comments) IN
            IF ~rows.ok
            THEN Failed(id, "persist", rows.err, runs[id].calls) /\ UNCHANGED comments
            ELSE IF ~Storable(runs[id].summary, rows.v)
            THEN Failed(id, "persist", "NOT NULL constraint failed", runs[id].calls)
                 /\ UNCHANGED comments
            ELSE /\ IF commitOk
                    THEN /\ reviews' = [reviews EXCEPT ![id].status = "completed",
                                                       ![id].summary = runs[id].summary.v]
                         /\ runs' = [runs EXCEPT ![id].pc = "done"]
                    ELSE Failed(id, "persist", "database is locked", runs[id].calls)
                 /\ comments' = comments \o
                        [i \in 1..Len(rows.v) |->
                            [review_id |-> rows.v[i].review_id,
                             file_path |-> rows.v[i].file_path.v,
                             line_start |-> rows.v[i].line_start,
                             line_end |-> rows.v[i].line_end,
                             message |-> rows.v[i].message.v,
                             severity |-> rows.v[i].severity.v]]
    /\ UNCHANGED <<webhookSecret, nextId, deliveries, lastRequest, lastResponse, fetch, sig, gen>>

\* main.py lines 160-176; a row that breaks a NOT NULL column or a store that
\* refuses the commit raises, and the session's pending changes are dropped
Persist(id, commitOk) ==
    /\ id \in DOMAIN runs /\ runs[id].pc = "persist"
    /\ IF id \notin DOMAIN reviews
       THEN /\ runs' = [runs EXCEPT ![id].pc = "done"]
            /\ UNCHANGED <<reviews, comments>>
       ELSE LET rows == CommentRows(id, runs[id].comments) IN
            IF ~rows.ok
            THEN Failed(id, "persist", rows.err, runs[id].calls) /\ UNCHANGED comments
            ELSE IF ~Storable(runs[id].summary, rows.v)
            THEN Failed(id, "persist", "NOT NULL constraint failed", runs[id].calls)
                 /\ UNCHANGED comments
            ELSE IF ~commitOk
            THEN Failed(id, "persist", "database is locked", runs[id].calls) /\ UNCHANGED comments
            ELSE /\ reviews' = [reviews EXCEPT ![id].status = "completed",
                                               ![id].summary = runs[id].summary.v]
                 /\ comments' = comments \o
                        [i \in 1..Len(rows.v) |->
                            [review_id |-> rows.v[i].review_id,
                             file_path |-> rows.v[i].file_path.v,
                             line_start |-> rows.v[i].line_start,
                             line_end |-> rows.v[i].line_end,
                             message |-> rows.v[i].message.v,
                             severity |-> rows.v[i].severity.v]]
                 /\ runs' = [runs EXCEPT ![id].pc = "done"]
    /\ UNCHANGED <<webhookSecret, nextId, deliveries, lastRequest, lastResponse, fetch, sig, gen>>

(* ------------------------------ the store ------------------------------ *)
\* rows leave the store only from outside the application (retention), here
\* between a Review's creation and the start of its run, the case the run's
\* entry check is written for; the relationship Review.comments cascades the
\* delete to the Review's comments
Purge(id) ==
    /\ id \in DOMAIN reviews
    /\ id \in DOMAIN runs /\ runs[id].pc = "start"
    /\ reviews' = [k \in (DOMAIN reviews) \ {id} |-> reviews[k]]
    /\ comments' = LET Keep(c) == c.review_id # id IN SelectSeq(comments, Keep)
    /\ UNCHANGED <<webhookSecret, nextId, runs, deliveries, lastRequest, lastResponse, fetch, sig, gen>>

Ids == 1..MaxDeliveries

Next ==
    \/ \E req \in Requests : github_webhook(req)
    \/ \E id \in Ids : RunStart(id)
    \/ \E id \in Ids, outcome \in TokenOutcomes : MintToken(id, outcome)
    \/ \E id \in Ids, ok \in BOOLEAN : FetchPullRequest(id, ok)
    \/ \E id \in Ids, ok \in BOOLEAN, total \in PipelineFileCounts : FetchPullFiles(id, ok, total)
    \/ \E id \in Ids, outcome \in ModelOutcomes, content \in ModelTexts : GenerateReview(id, outcome, content)
    \/ \E id \in Ids, ok \in BOOLEAN : PostReviewSummary(id, ok)
    \/ \E id \in Ids, commitOk \in BOOLEAN : Persist(id, commitOk)
    \/ \E id \in Ids : Purge(id)

Spec == Init /\ [][Next]_vars

\* the steps of the run dispatched for Review id
RunStep(id) ==
    \/ RunStart(id)
    \/ \E outcome \in TokenOutcomes : MintToken(id, outcome)
    \/ \E ok \in BOOLEAN : FetchPullRequest(id, ok)
    \/ \E ok \in BOOLEAN, total \in PipelineFileCounts : FetchPullFiles(id, ok, total)
    \/ \E outcome \in ModelOutcomes, content \in ModelTexts : GenerateReview(id, outcome, content)
    \/ \E ok \in BOOLEAN : PostReviewSummary(id, ok)
    \/ \E commitOk \in BOOLEAN : Persist(id, commitOk)

(* ------------------- fetch_pull_files taken on its own ------------------ *)
Limits == {-1, 0, 1, 20, 50, 99, 100, 101, 200, 237, 250}

InitFetch ==
    /\ webhookSecret = ""
    /\ reviews = <<>>
    /\ comments = <<>>
    /\ nextId = 1
    /\ runs = <<>>
    /\ deliveries = 0
    /\ lastRequest = NoRequest
    /\ lastResponse = NoResponse
    /\ fetch \in {NewFetch(total, limit) : total \in 0..MaxFiles, limit \in Limits}
    /\ sig = IdleSig
    /\ gen = IdleGen

pipeline == <<webhookSecret, reviews, comments, nextId, runs, deliveries, lastRequest, lastResponse>>

\* github_app.py lines 77-87, the request answered with a page
FetchPage ==
    /\ fetch.pc = "loop" /\ LoopCondition(fetch)
    /\ fetch' = LoopBody(fetch)
    /\ UNCHANGED <<pipeline, sig, gen>>

\* github_app.py lines 79-80, the request answered with an error status
FetchPageError ==
    /\ fetch.pc = "loop" /\ LoopCondition(fetch)
    /\ fetch' = [fetch EXCEPT !.requests = Append(@, fetch.page), !.pc = "raised"]
    /\ UNCHANGED <<pipeline, sig, gen>>

\* github_app.py line 89, after a break or a false loop condition
FetchReturn ==
    /\ fetch.pc = "return" \/ (fetch.pc = "loop" /\ ~LoopCondition(fetch))
    /\ fetch' = Return(fetch)
    /\ UNCHANGED <<pipeline, sig, gen>>

NextFetch == FetchPage \/ FetchPageError \/ FetchReturn

SpecFetch == InitFetch /\ [][NextFetch]_vars

\* the awaited coroutine keeps running: every request returns or raises within
\* the client's timeout (github_app.py line 76) and the loop goes on
SpecFetchLive == SpecFetch /\ WF_vars(NextFetch)

(* ------------------------------ properties ----------------------------- *)
Ops(calls) == [i \in 1..Len(calls) |-> calls[i].op]
IsPrefix(s, t) == Len(s) <= Len(t) /\ s = SubSeq(t, 1, Len(s))
CommentsOf(id) == LET Keep(c) == c.review_id = id IN SelectSeq(comments, Keep)
StageOrder == <<"token", "pr", "files", "model", "publish">>

\* position of a run in the fixed order of its steps
Rank(pc) ==
    CASE pc = "start" -> 0 [] pc = "token" -> 1 [] pc = "pr" -> 2 [] pc = "files" -> 3
      [] pc = "model" -> 4 [] pc = "publish" -> 5 [] pc = "persist" -> 6 [] pc = "done" -> 7

\* C1: every run that found its Review at entry terminates, whichever of the
\* token mint, PR fetch, file fetch, model call, publish call and persist step
\* fail, and when it has ended the Review's status is completed or failed.
\* Termination: a run that has not ended always has a step to take, whatever
\* its calls answer, and every step of a run moves it forward in the order of
\* Rank, so the event loop brings it to its end in at most seven steps; while
\* it has not ended the Review is in_progress, and at its end completed or failed
C1_RunEndsCompletedOrFailed ==
    /\ [](\A id \in DOMAIN runs :
            /\ runs[id].pc # "done" => ENABLED RunStep(id)
            /\ runs[id].entered
                 => /\ id \in DOMAIN reviews
                    /\ runs[id].pc # "done" => reviews[id].status = "in_progress"
                    /\ runs[id].pc = "done" => reviews[id].status \in Terminal)
    /\ [][\A id \in DOMAIN runs :
             runs'[id] # runs[id] => Rank(runs'[id].pc) > Rank(runs[id].pc)]_vars

\* a run whose persist step raised has ended with its Review failed
C1_Witness ==
    \E id \in DOMAIN runs :
        /\ runs[id].pc = "done" /\ runs[id].fail = "persist"
        /\ id \in DOMAIN reviews /\ reviews[id].status = "failed"

\* C2: the status of a webhook-created Review changes only queued -> in_progress,
\* in_progress -> completed and in_progress -> failed; a completed or failed
\* status is never changed again
C2_StatusTransitions ==
    [][\A id \in (DOMAIN reviews) \cap (DOMAIN reviews') :
          reviews'[id].status # reviews[id].status
              => <<reviews[id].status, reviews'[id].status>> \in
                     {<<"queued", "in_progress">>, <<"in_progress", "completed">>,
                      <<"in_progress", "failed">>}]_vars

\* one Review has gone all the way to completed and another to failed
C2_Witness ==
    \E a, b \in DOMAIN reviews :
        /\ reviews[a].status = "completed" /\ reviews[b].status = "failed"
        /\ runs[a].pc = "done" /\ runs[b].pc = "done"

\* C3: when the token mint, the PR fetch, the file fetch, the model call or the
\* publish call of a run has failed, the Review is failed, its summary is
\* "Review failed: " followed by the error's text, and it has no ReviewComment;
\* a Review has ReviewComments only after its run's publish call succeeded
C3_FailureRecorded ==
    /\ \A id \in DOMAIN runs :
          (\E i \in 1..Len(runs[id].calls) : ~runs[id].calls[i].ok)
          \/ (runs[id].pc = "done" /\ runs[id].fail \in {"token", "model"})
              => /\ runs[id].pc = "done"
                 /\ reviews[id].status = "failed"
                 /\ reviews[id].summary = "Review failed: " \o runs[id].err
                 /\ CommentsOf(id) = <<>>
    /\ \A i \in 1..Len(comments) :
          LET id == comments[i].review_id IN
          \E k \in 1..Len(runs[id].calls) :
              runs[id].calls[k].op = "publish" /\ runs[id].calls[k].ok

\* the publish call of a run answered with an error and the Review is failed
C3_Witness ==
    \E id \in DOMAIN runs :
        /\ runs[id].calls # <<>>
        /\ runs[id].calls[Len(runs[id].calls)] = Call("publish", runs[id].token, FALSE)
        /\ reviews[id].status = "failed"
        /\ reviews[id].summary =
               "Review failed: Server error '500 Internal Server Error' for url '/pulls/42/reviews'"

\* C4: the external calls of a run are made in the order token, PR, files,
\* model, publish, each after the previous one succeeded and each at most once;
\* a failed call is the run's last, and the Review is completed only after all five
C4_StageOrder ==
    \A id \in DOMAIN runs :
        LET calls == runs[id].calls IN
        /\ IsPrefix(Ops(calls), StageOrder)
        /\ \A i \in 1..Len(calls) : ~calls[i].ok => i = Len(calls) /\ runs[id].pc = "done"
        /\ runs[id].pc = "persist" => Ops(calls) = StageOrder
        /\ id \in DOMAIN reviews /\ reviews[id].status = "completed" => Ops(calls) = StageOrder

\* a run has stopped at a failed file fetch, another has made all five calls
C4_Witness ==
    \E a, b \in DOMAIN runs :
        /\ Ops(runs[a].calls) = <<"token", "pr", "files">> /\ runs[a].pc = "done"
        /\ Ops(runs[b].calls) = StageOrder /\ reviews[b].status = "completed"

\* C5: a run makes no external call while its Review is still queued
C5_InProgressBeforeCalls ==
    \A id \in DOMAIN runs :
        runs[id].calls # <<>> /\ id \in DOMAIN reviews => reviews[id].status # "queued"

\* a run has made its token request and its Review shows in_progress
C5_Witness ==
    \E id \in DOMAIN runs :
        /\ Ops(runs[id].calls) = <<"token">> /\ runs[id].pc = "pr"
        /\ reviews[id].status = "in_progress"

\* the delivery handled by the step, when the step is a webhook delivery
Delivered == deliveries' # deliveries
SignatureOk(req) == verify_github_signature(webhookSecret, req.body, req.signature)
NothingCreated == reviews' = reviews /\ comments' = comments /\ runs' = runs

\* C6: a delivery whose signature does not verify is answered 401, a
\* pull_request delivery with an accepted action and no installation id is
\* answered 400, and neither creates a Review or dispatches a run
C6_RejectedDeliveries ==
    [][Delivered =>
         LET req == lastRequest' IN
         /\ ~SignatureOk(req) => lastResponse'.code = 401 /\ NothingCreated
         /\ /\ SignatureOk(req)
            /\ req.event = "pull_request"
            /\ req.body.action \in {"opened", "synchronize", "reopened"}
            /\ req.body.installation_id = NoInstallation
            => lastResponse'.code = 400 /\ NothingCreated]_vars

\* a delivery signed with the wrong key was answered 401 while the secret is set
C6_Witness ==
    /\ webhookSecret # ""
    /\ lastRequest.signature = Header("sha256", HmacHex("wrong", lastRequest.body))
    /\ lastResponse.code = 401

\* C7: a delivery with a valid signature creates a Review only when its event
\* is pull_request and its action is opened, synchronize or reopened; any
\* other event or action is answered received/skipped and creates nothing
C7_OnlyPullRequestActions ==
    [][Delivered /\ SignatureOk(lastRequest') =>
         LET req == lastRequest'
             proceeds == /\ req.event = "pull_request"
                         /\ req.body.action \in {"opened", "synchronize", "reopened"}
         IN  /\ ~NothingCreated => proceeds
             /\ ~proceeds => /\ lastResponse'.code = 200 /\ lastResponse'.skipped
                             /\ lastResponse'.review_id = 0
                             /\ lastResponse'.event = req.event
                             /\ NothingCreated]_vars

\* a signed pull_request delivery with action closed was skipped
C7_Witness ==
    /\ lastRequest.event = "pull_request" /\ lastRequest.body.action = "closed"
    /\ SignatureOk(lastRequest)
    /\ lastResponse.code = 200 /\ lastResponse.skipped

\* the deliveries the handler accepts
Accepted(req) ==
    /\ SignatureOk(req)
    /\ req.event = "pull_request"
    /\ req.body.action \in {"opened", "synchronize", "reopened"}
    /\ req.body.installation_id # NoInstallation

\* C8: an accepted delivery creates exactly one Review, with an identifier no
\* Review or run had before and status queued, and dispatches exactly one run,
\* for that identifier, leaving every other Review and run as it was; a run
\* that has not started finds its Review queued
C8_OneReviewPerDelivery ==
    /\ [](\A id \in DOMAIN runs :
            runs[id].pc = "start" /\ id \in DOMAIN reviews => reviews[id].status = "queued")
    /\ [][Delivered /\ Accepted(lastRequest') =>
            LET id == lastResponse'.review_id IN
            /\ id \notin DOMAIN reviews /\ id \notin DOMAIN runs
            /\ DOMAIN reviews' = (DOMAIN reviews) \cup {id}
            /\ DOMAIN runs' = (DOMAIN runs) \cup {id}
            /\ reviews'[id].status = "queued"
            /\ runs'[id] = NewRun(lastRequest'.body.installation_id)
            /\ \A k \in DOMAIN reviews : reviews'[k] = reviews[k]
            /\ \A k \in DOMAIN runs : runs'[k] = runs[k]
            /\ comments' = comments]_vars

\* the same pull request was delivered twice and has two Reviews
C8_Witness ==
    \E a, b \in DOMAIN reviews :
        /\ a # b
        /\ reviews[a].repo = reviews[b].repo /\ reviews[a].pr_number = reviews[b].pr_number
        /\ lastResponse.review_id = b

\* C9: whatever text the model returns, generate_review returns a result and
\* does not raise: no run fails inside generate_review after the model replied
C9_GenerateNeverRaises ==
    \A id \in DOMAIN runs :
        (\E i \in 1..Len(runs[id].calls) : runs[id].calls[i] = Call("model", 0, TRUE))
            => runs[id].fail # "parse"

\* C10: fetch_pull_files returns the first min(limit, N) of the platform's N
\* files in the platform's order; for N = 237 that is 237 files with limit 250
\* and 50 files with limit 50
C10_FirstFilesInOrder ==
    fetch.pc = "done" =>
        /\ fetch.result = [i \in 1..Min(fetch.limit, fetch.total) |-> i]
        /\ fetch.total = 237 /\ fetch.limit = 250 => Len(fetch.result) = 237
        /\ fetch.total = 237 /\ fetch.limit = 50 => Len(fetch.result) = 50

\* pages of sizes 100, 100 and 37 were fetched for limit 250
C10_Witness ==
    /\ fetch.pc = "done" /\ fetch.total = 237 /\ fetch.limit = 250
    /\ fetch.requests = <<1, 2, 3>> /\ Len(fetch.result) = 237

\* C11: fetch_pull_files requests pages 1, 2, ... in turn; every page before
\* the last requested one was full and left fewer than limit files collected,
\* so no page follows a short or empty page and page k+1 is not requested when
\* 100*k >= limit; no request is made when limit <= 0, only page 1 is
\* requested for limit 50, and the call comes to an end
C11_PagesAndTermination ==
    /\ [](LET n == Len(fetch.requests) IN
          /\ \A i \in 1..n : fetch.requests[i] = i
          /\ \A i \in 1..(n - 1) :
                Len(Page(fetch.total, i)) = 100 /\ 100 * i < fetch.limit
          /\ fetch.limit <= 0 => n = 0
          /\ fetch.limit = 50 => n <= 1
          /\ fetch.pc \in {"return", "done"} /\ n > 0 =>
                \/ Len(Page(fetch.total, n)) < 100
                \/ 100 * n >= fetch.limit)
    /\ <>(fetch.pc \in {"done", "raised"})

\* 237 files and limit 50: the call ended after requesting page 1 only
C11_Witness ==
    /\ fetch.pc = "done" /\ fetch.total = 237 /\ fetch.limit = 50
    /\ fetch.requests = <<1>>

(* --------------- verify_github_signature taken on its own -------------- *)
SigSecrets == {"", "s3cret", "other"}
Payloads == {"{action: opened}", "{action: closed}"}
SigAlgs == {"sha256", "sha1", ""}

\* a call whose header is absent, or was made by a sender who signed
\* signPayload with signKey and announced the algorithm alg
SigCalls ==
    { [pc |-> "call", secret |-> s, payload |-> p, header |-> NoHeader,
       alg |-> "", signKey |-> "", signPayload |-> p, result |-> FALSE]
        : s \in SigSecrets, p \in Payloads }
    \cup
    { [pc |-> "call", secret |-> s, payload |-> p, header |-> Header(a, HmacHex(k, q)),
       alg |-> a, signKey |-> k, signPayload |-> q, result |-> FALSE]
        : s \in SigSecrets, p \in Payloads, a \in SigAlgs, k \in SigSecrets, q \in Payloads }

PipelineIdle ==
    /\ webhookSecret = ""
    /\ reviews = <<>>
    /\ comments = <<>>
    /\ nextId = 1
    /\ runs = <<>>
    /\ deliveries = 0
    /\ lastRequest = NoRequest
    /\ lastResponse = NoResponse

InitSig ==
    /\ PipelineIdle
    /\ fetch = IdleFetch
    /\ gen = IdleGen
    /\ sig \in SigCalls

\* github_app.py lines 15-22
VerifySignature ==
    /\ sig.pc = "call"
    /\ sig' = [sig EXCEPT !.pc = "done",
                          !.result = verify_github_signature(sig.secret, sig.payload, sig.header)]
    /\ UNCHANGED <<pipeline, fetch, gen>>

NextSig == VerifySignature

SpecSig == InitSig /\ [][NextSig]_vars

\* C12: verify_github_signature returns true exactly when the secret is not
\* empty, the header is present with the prefix sha256= and its digest was
\* computed over this payload with this secret; an empty secret, a missing
\* header, another prefix, another payload or another secret give false; the
\* call changes nothing but its own result
C12_VerifiesExactly ==
    /\ [](sig.pc = "done" =>
            (sig.result <=> /\ sig.secret # ""
                            /\ sig.header # NoHeader
                            /\ sig.alg = "sha256"
                            /\ sig.signKey = sig.secret
                            /\ sig.signPayload = sig.payload))
    /\ [][/\ UNCHANGED <<pipeline, fetch, gen>>
          /\ sig'.secret = sig.secret /\ sig'.payload = sig.payload
          /\ sig'.header = sig.header]_vars

\* a header signed with the configured secret over the delivered payload verified
C12_Witness ==
    /\ sig.pc = "done" /\ sig.result
    /\ sig.secret = "s3cret" /\ sig.header = Header("sha256", HmacHex("s3cret", sig.payload))

(* ------------------- generate_review taken on its own ------------------ *)
GenSummaries == {JStr("LGTM"), JStr("Found issues"), JStr(""), JNull}
GenComments == {JList(<<>>), JList(<<FullComment>>), JList(<<FullComment, BareComment>>),
                JList(<<JStr("oops")>>), JStr("none"), JNull}
GenKeys == {"summary", "comments", "notes"}

\* the JSON object with the keys ks
GenObject(ks, summary, cs) ==
    JObj([k \in ks |-> CASE k = "summary" -> summary
                         [] k = "comments" -> cs
                         [] OTHER -> JStr("n/a")])

\* replies of the model backend: those of the pipeline and every object over
\* the keys, with every value of summary and comments
GenTexts ==
    ModelTexts \cup
    { JsonText(GenObject(ks, sv, cv)) : ks \in SUBSET GenKeys, sv \in GenSummaries, cv \in GenComments }

InitGen ==
    /\ PipelineIdle
    /\ fetch = IdleFetch
    /\ sig = IdleSig
    /\ gen \in { [pc |-> "call", content |-> c, result |-> Raise("")] : c \in GenTexts }

\* llm.py lines 57-68
GenerateResult ==
    /\ gen.pc = "call"
    /\ gen' = [gen EXCEPT !.pc = "done", !.result = generate_review(gen.content)]
    /\ UNCHANGED <<pipeline, fetch, sig>>

NextGen == GenerateResult

SpecGen == InitGen /\ [][NextGen]_vars

\* C13: for text that is not valid JSON generate_review returns exactly
\* {summary: "Unable to parse LLM response.", comments: []}; for a JSON object
\* it returns the object with summary set to "Review completed." when summary
\* is missing and comments set to [] when comments is missing, every key that
\* is present keeping its value
C13_FallbackAndDefaults ==
    gen.pc = "done" =>
        /\ ~gen.content.valid /\ ~gen.content.empty =>
              /\ gen.result.ok
              /\ gen.result.v = JObj([summary |-> JStr("Unable to parse LLM response."),
                                      comments |-> JList(<<>>)])
        /\ gen.content.valid /\ gen.content.value.t = "obj" =>
              LET d == gen.content.value.v IN
              /\ gen.result.ok /\ gen.result.v.t = "obj"
              /\ DOMAIN gen.result.v.v = (DOMAIN d) \cup {"summary", "comments"}
              /\ \A k \in DOMAIN d : gen.result.v.v[k] = d[k]
              /\ "summary" \notin DOMAIN d => gen.result.v.v["summary"] = JStr("Review completed.")
              /\ "comments" \notin DOMAIN d => gen.result.v.v["comments"] = JList(<<>>)

\* JSON with a summary and no comments came back with its summary and comments []
C13_Witness ==
    /\ gen.pc = "done"
    /\ gen.content = JsonText(JObj([summary |-> JStr("LGTM")]))
    /\ gen.result.ok
    /\ gen.result.v = JObj([summary |-> JStr("LGTM"), comments |-> JList(<<>>)])

\* C14: when a run has completed, one ReviewComment is stored per generated
\* comment, in order, every stored line_start and line_end is a non-negative
\* integer, and a field the generated comment does not have is stored as
\* file path "unknown", line 0, message "" and severity "info"
C14_StoredComments ==
    \A id \in (DOMAIN reviews) \cap (DOMAIN runs) :
        reviews[id].status = "completed" /\ runs[id].comments.t = "list" =>
            LET cs == runs[id].comments.v
                rows == CommentsOf(id)
            IN  /\ Len(rows) = Len(cs)
                /\ \A i \in 1..Len(rows) :
                      /\ rows[i].line_start \in Nat /\ rows[i].line_end \in Nat
                      /\ cs[i].t = "obj" =>
                            /\ "file_path" \notin DOMAIN cs[i].v => rows[i].file_path = "unknown"
                            /\ "line_start" \notin DOMAIN cs[i].v => rows[i].line_start = 0
                            /\ "line_end" \notin DOMAIN cs[i].v => rows[i].line_end = 0
                            /\ "message" \notin DOMAIN cs[i].v => rows[i].message = ""
                            /\ "severity" \notin DOMAIN cs[i].v => rows[i].severity = "info"

\* C15: a run that does not find its Review at entry ends at once: it makes
\* no external call and leaves every Review and ReviewComment as it was
C15_AbsentReviewNoOp ==
    /\ [](\A id \in DOMAIN runs :
            ~runs[id].entered => runs[id].pc \in {"start", "done"} /\ runs[id].calls = <<>>)
    /\ [][\A id \in DOMAIN runs :
             runs[id].pc = "start" /\ runs'[id] # runs[id] /\ id \notin DOMAIN reviews
                 => /\ runs'[id].pc = "done" /\ runs'[id].calls = <<>>
                    /\ reviews' = reviews /\ comments' = comments]_vars

\* the Review of a run was purged before the run started, and the run has ended
C15_Witness ==
    \E id \in DOMAIN runs :
        /\ id \notin DOMAIN reviews
        /\ runs[id].pc = "done" /\ ~runs[id].entered /\ runs[id].calls = <<>>

\* the stored outcome that the record of run id alone determines
OutcomeOf(id) ==
    IF runs[id].fail = ""
    THEN [status |-> "completed", summary |-> runs[id].summary.v,
          rows |-> Len(Iterate(runs[id].comments).v)]
    ELSE [status |-> "failed", summary |-> "Review failed: " \o runs[id].err, rows |-> 0]

\* C16: in every interleaving of the runs, a step that changes a Review or
\* its ReviewComments is a step of the run dispatched with that Review's
\* identifier and of no other run, and once that run has ended the Review's
\* status, summary and comments are those of its own run's outcome
C16_RunOwnsItsReview ==
    /\ [](\A id \in (DOMAIN runs) \cap (DOMAIN reviews) :
            runs[id].pc = "done" /\ runs[id].entered =>
                /\ reviews[id].status = OutcomeOf(id).status
                /\ reviews[id].summary = OutcomeOf(id).summary
                /\ Len(CommentsOf(id)) = OutcomeOf(id).rows)
    /\ [][\A id \in (DOMAIN reviews) \cap (DOMAIN reviews') :
             LET Own(c) == c.review_id = id IN
             reviews'[id] # reviews[id] \/ SelectSeq(comments', Own) # SelectSeq(comments, Own)
                 => /\ id \in DOMAIN runs /\ runs'[id] # runs[id]
                    /\ \A k \in (DOMAIN runs) \ {id} : runs'[k] = runs[k]]_vars

\* two runs are under way at once, one about to publish and one about to
\* call the model
C16_Witness ==
    \E a, b \in DOMAIN runs :
        /\ a # b
        /\ runs[a].pc = "publish" /\ runs[b].pc = "model"
        /\ reviews[a].status = "in_progress" /\ reviews[b].status = "in_progress"

\* the installation tokens carried by the calls of run id
TokensUsed(id) ==
    {runs[id].calls[i].token : i \in {j \in 1..Len(runs[id].calls) : runs[id].calls[j].op # "token"
                                                                    /\ runs[id].calls[j].op # "model"}}

\* C17: a run makes at most one token-issuance call; every PR fetch, file
\* fetch and publish call of a run comes after that run's own successful
\* token-issuance call and carries the token it issued; no token is carried
\* by the calls of two runs
C17_FreshTokenPerRun ==
    /\ \A id \in DOMAIN runs :
          LET calls == runs[id].calls IN
          /\ Cardinality({i \in 1..Len(calls) : calls[i].op = "token"}) <= 1
          /\ \A i \in 1..Len(calls) :
                calls[i].op \in {"pr", "files", "publish"} =>
                    /\ calls[1] = Call("token", 0, TRUE)
                    /\ calls[i].token = IssuedToken(id)
          /\ runs[id].token \in {0, IssuedToken(id)}
    /\ \A a, b \in DOMAIN runs : a # b => TokensUsed(a) \cap TokensUsed(b) = {}

\* two runs have each published with their own token
C17_Witness ==
    \E a, b \in DOMAIN runs :
        /\ a # b
        /\ Call("publish", IssuedToken(a), TRUE) \in {runs[a].calls[i] : i \in 1..Len(runs[a].calls)}
        /\ Call("publish", IssuedToken(b), TRUE) \in {runs[b].calls[i] : i \in 1..Len(runs[b].calls)}

(* ------------------------- the REST endpoints -------------------------- *)
MaxApiReviews == 2

\* schemas.py: the optional fields of a request body and their defaults
FieldOr(body, key, default) == IF key \in DOMAIN body THEN body[key] ELSE default
ReviewCreateStatus(payload) == FieldOr(payload, "status", "pending")
CommentCreateSeverity(comment) == FieldOr(comment, "severity", "info")

ApiStatuses == {"queued", "in_progress", "completed", "failed", "pending", "done"}
ApiComments ==
    {<<>>,
     <<[file_path |-> "src/app.py", line_start |-> 3, line_end |-> 4, message |-> "Unused import."]>>,
     <<[file_path |-> "src/app.py", line_start |-> 3, line_end |-> 4, message |-> "Unused import.",
        severity |-> "warning"]>>}

\* bodies of POST /api/reviews that pass validation, with and without a status
ReviewCreates ==
    { [repo |-> RepoName, pr_number |-> PrNumber, summary |-> "Manual review", comments |-> cs]
          : cs \in ApiComments }
    \cup
    { [repo |-> RepoName, pr_number |-> PrNumber, summary |-> "Manual review", comments |-> cs,
       status |-> st] : cs \in ApiComments, st \in ApiStatuses }

InitApi ==
    /\ PipelineIdle
    /\ fetch = IdleFetch
    /\ sig = IdleSig
    /\ gen = IdleGen

\* main.py lines 56-83
create_review(payload) ==
    /\ nextId <= MaxApiReviews
    /\ LET id == NewReviewId IN
       /\ reviews' = Extend(reviews, id,
                        [repo |-> payload.repo, pr_number |-> payload.pr_number,
                         status |-> ReviewCreateStatus(payload), summary |-> payload.summary])
       /\ comments' = comments \o
              [i \in 1..Len(payload.comments) |->
                  [review_id |-> id,
                   file_path |-> payload.comments[i].file_path,
                   line_start |-> payload.comments[i].line_start,
                   line_end |-> payload.comments[i].line_end,
                   message |-> payload.comments[i].message,
                   severity |-> CommentCreateSeverity(payload.comments[i])]]
       /\ lastResponse' = Response(200, FALSE, "-", "-", id, "-")
    /\ nextId' = nextId + 1
    /\ UNCHANGED <<webhookSecret, runs, deliveries, lastRequest, fetch, sig, gen>>

\* main.py lines 86-124
seed_review ==
    IF DOMAIN reviews # {}
    THEN /\ lastResponse' = Response(409, FALSE, "-", "-", 0, "Reviews already exist")
         /\ UNCHANGED <<webhookSecret, reviews, comments, nextId, runs, deliveries, lastRequest,
                        fetch, sig, gen>>
    ELSE LET id == NewReviewId IN
         /\ reviews' = Extend(reviews, id,
                          [repo |-> "octo-org/example-repo", pr_number |-> 42, status |-> "completed",
                           summary |-> "Sample AI review: Checked diff for issues."])
         /\ comments' = comments \o
                <<[review_id |-> id, file_path |-> "src/api/service.py", line_start |-> 18,
                   line_end |-> 22, message |-> "Potential null dereference when user is None.",
                   severity |-> "warning"],
                  [review_id |-> id, file_path |-> "src/utils/date.ts", line_start |-> 4,
                   line_end |-> 4, message |-> "Consider UTC parsing to avoid timezone issues.",
                   severity |-> "info"]>>
         /\ nextId' = nextId + 1
         /\ lastResponse' = Response(200, FALSE, "-", "-", id, "-")
         /\ UNCHANGED <<webhookSecret, runs, deliveries, lastRequest, fetch, sig, gen>>

NextApi ==
    \/ \E payload \in ReviewCreates : create_review(payload)
    \/ seed_review

SpecApi == InitApi /\ [][NextApi]_vars

\* C18: the status of every stored Review is one of queued, in_progress,
\* completed and failed, whichever operation wrote it
C18_StatusInEnum ==
    \A id \in DOMAIN reviews :
        reviews[id].status \in {"queued", "in_progress", "completed", "failed"}

\* a run whose publish call was answered with success
Published(id) ==
    \E i \in 1..Len(runs[id].calls) : runs[id].calls[i].op = "publish" /\ runs[id].calls[i].ok

\* C19: a run whose publish call succeeded ends with its Review completed:
\* no Review that has ended failed has had a review posted by its run
C19_PublishedMeansCompleted ==
    \A id \in (DOMAIN runs) \cap (DOMAIN reviews) :
        runs[id].pc = "done" /\ Published(id) => reviews[id].status = "completed"

\* C20: a webhook-created Review gets its completed status, the model's
\* summary and all of its run's ReviewComments in one step: whenever it is
\* completed its summary and every comment row of the run are there, the rows
\* and the status appear together, and while it is queued, in_progress or
\* failed it has no ReviewComment
C20_CompletedWithAllComments ==
    /\ [](\A id \in (DOMAIN runs) \cap (DOMAIN reviews) :
            /\ reviews[id].status = "completed" =>
                  /\ CommentRows(id, runs[id].comments).ok
                  /\ Len(CommentsOf(id)) = Len(CommentRows(id, runs[id].comments).v)
                  /\ reviews[id].summary = runs[id].summary.v
            /\ reviews[id].status \in {"queued", "in_progress", "failed"} => CommentsOf(id) = <<>>)
    /\ [][\A id \in (DOMAIN runs) \cap (DOMAIN reviews) \cap (DOMAIN reviews') :
             LET Own(c) == c.review_id = id IN
             SelectSeq(comments', Own) # SelectSeq(comments, Own)
                 => reviews[id].status = "in_progress" /\ reviews'[id].status = "completed"]_vars

\* one run completed with its three comment rows stored, and another whose
\* commit was refused after it had built its rows ended failed with none
C20_Witness ==
    \E a, b \in (DOMAIN runs) \cap (DOMAIN reviews) :
        /\ reviews[a].status = "completed" /\ Len(CommentsOf(a)) = 3
        /\ reviews[a].summary = "Found issues"
        /\ runs[b].pc = "done" /\ runs[b].err = "database is locked"
        /\ reviews[b].status = "failed" /\ CommentsOf(b) = <<>>

====
